---- MODULE Spec2Model ----
(***************************************************************************)
(* A model of proxy.py, a sequential HTTP forward proxy.                   *)
(*                                                                         *)
(* Bytes and characters are one-element strings.  The ASCII bytes decode   *)
(* to the character of the same name; "CR", "LF" stand for \r and \n;      *)
(* "xC3" "xA9" is the two-byte UTF-8 encoding of the character "U+E9";     *)
(* "xFF" is a byte that no UTF-8 text contains.  A str or a bytes object   *)
(* is a sequence of those.                                                 *)
(***************************************************************************)
EXTENDS Integers, Sequences, FiniteSets, TLC

\* ------------------------------------------------------------ bounds
MaxUrlPieces == 4
MaxHeaderLines == 2
MaxClients == 2
MaxChunks == 2

\* ------------------------------------------------------------ text
SP == <<" ">>
SLASH == <<"/">>
CRLF == <<"CR", "LF">>
LFonly == <<"LF">>
HTTP == <<"h", "t", "t", "p", ":", "/", "/">>
HostColon == <<"H", "o", "s", "t", ":">>
HostColonSp == <<"H", "o", "s", "t", ":", " ">>

\* str.startswith
StartsWith(s, p) == Len(p) <= Len(s) /\ SubSeq(s, 1, Len(p)) = p

RECURSIVE FindFrom(_, _, _)
FindFrom(s, pat, i) ==
    IF i + Len(pat) > Len(s) THEN -1
    ELSE IF SubSeq(s, i + 1, i + Len(pat)) = pat THEN i
    ELSE FindFrom(s, pat, i + 1)

\* str.find: the 0-based index of the first occurrence, or -1
Find(s, pat) == FindFrom(s, pat, 0)

\* s[n:]
From(s, n) == SubSeq(s, n + 1, Len(s))

\* s[:n]
UpTo(s, n) == SubSeq(s, 1, n)

RECURSIVE Split(_, _)
\* str.split(sep): the pieces between the occurrences of sep, at least one
Split(s, sep) ==
    LET i == Find(s, sep)
    IN  IF i = -1 THEN <<s>>
        ELSE <<UpTo(s, i)>> \o Split(From(s, i + Len(sep)), sep)

RECURSIVE Utf8Valid(_, _)
Utf8Valid(b, i) ==
    IF i > Len(b) THEN TRUE
    ELSE IF b[i] = "xC3"
         THEN i + 1 <= Len(b) /\ b[i + 1] = "xA9" /\ Utf8Valid(b, i + 2)
    ELSE IF b[i] \in {"xA9", "xFF"} THEN FALSE
    ELSE Utf8Valid(b, i + 1)

RECURSIVE Utf8Chars(_, _)
Utf8Chars(b, i) ==
    IF i > Len(b) THEN <<>>
    ELSE IF b[i] = "xC3" THEN <<"U+E9">> \o Utf8Chars(b, i + 2)
    ELSE <<b[i]>> \o Utf8Chars(b, i + 1)

\* bytes.decode("utf-8"): the text, or UnicodeDecodeError
Decode(b) ==
    IF Utf8Valid(b, 1) THEN [raised |-> "none", str |-> Utf8Chars(b, 1)]
    ELSE [raised |-> "UnicodeDecodeError", str |-> <<>>]

RECURSIVE Encode(_)
\* str.encode
Encode(s) ==
    IF s = <<>> THEN <<>>
    ELSE (IF Head(s) = "U+E9" THEN <<"xC3", "xA9">> ELSE <<Head(s)>>)
         \o Encode(Tail(s))

\* ------------------------------------------------------------ rewriter

\* Proxy.get_url
get_url(request) ==
    LET d == Decode(request)
        first_line == Split(d.str, LFonly)[1]
        tokens == Split(first_line, SP)
    IN  IF d.raised # "none" THEN [raised |-> d.raised, url |-> <<>>]
        ELSE IF Len(tokens) < 2 THEN [raised |-> "IndexError", url |-> <<>>]
        ELSE [raised |-> "none", url |-> tokens[2]]

StripPrefix(temp, prefix) ==
    IF StartsWith(temp, prefix) THEN From(temp, Len(prefix)) ELSE temp

StripSlash(temp) ==
    IF StartsWith(temp, SLASH) THEN From(temp, 1) ELSE temp

\* Mutant of StripHttp: strips "http:" and leaves the two slashes
StripHttpScheme(temp) ==
    LET http_location == Find(temp, HTTP)
    IN  IF http_location # -1 THEN From(temp, http_location + 5) ELSE temp

\* Mutant of StripHttp: the marker counts only at the start of the text
StripHttpAtStart(temp) ==
    IF StartsWith(temp, HTTP) THEN From(temp, 7) ELSE temp

StripHttp(temp) ==
    LET http_location == Find(temp, HTTP)
    IN  IF http_location # -1 THEN From(temp, http_location + 7) ELSE temp

\* Mutant of SplitHostPath: splits after the slash that follows the domain
SplitHostPathAfter(temp) ==
    LET after_slash == Find(temp, SLASH)
    IN  IF after_slash # -1
        THEN <<UpTo(temp, after_slash + 1), From(temp, after_slash + 1)>>
        ELSE <<temp, SLASH>>

SplitHostPath(temp) ==
    LET after_slash == Find(temp, SLASH)
    IN  IF after_slash # -1
        THEN <<UpTo(temp, after_slash), From(temp, after_slash)>>
        ELSE <<temp, SLASH>>

\* Proxy.separate_url_and_prefix: <<domain, path>>
separate_url_and_prefix(url, prefix) ==
    SplitHostPath(StripHttp(StripSlash(StripPrefix(url, prefix))))

\* Mutant of RequestLine: the target of the client is kept
RequestLineKeepsTarget(first_line, path) ==
    first_line[1] \o SP \o first_line[2] \o SP \o first_line[3]

\* "{} {} {}".format(first_line[0], path, first_line[2])
RequestLine(first_line, path) ==
    first_line[1] \o SP \o path \o SP \o first_line[3]

\* Mutant of IsHostLine: looks for "host:"
IsHostLineLowercase(line, rewritten_host) ==
    ~rewritten_host /\ StartsWith(line, <<"h", "o", "s", "t", ":">>)

\* Mutant of IsHostLine: the one-shot flag is not consulted
IsHostLineEvery(line, rewritten_host) == StartsWith(line, HostColon)

\* Whether the loop of prepare_request takes its Host branch on this line
IsHostLine(line, rewritten_host) ==
    ~rewritten_host /\ StartsWith(line, HostColon)

RECURSIVE RewriteHeaders(_, _, _, _)
\* Iterations 2.. of the loop of prepare_request, from line i on
RewriteHeaders(lines, i, rewritten_host, address) ==
    IF i > Len(lines) THEN <<>>
    ELSE IF IsHostLine(lines[i], rewritten_host)
         THEN CRLF \o HostColonSp \o address
              \o RewriteHeaders(lines, i + 1, TRUE, address)
    ELSE CRLF \o lines[i]
         \o RewriteHeaders(lines, i + 1, rewritten_host, address)

\* Proxy.prepare_request: the rewritten bytes, or the exception raised
prepare_request(req, addr, pth) ==
    LET d == Decode(req)
        lines == Split(d.str, CRLF)
        first_line == Split(lines[1], SP)
    IN  IF d.raised # "none" THEN [raised |-> d.raised, request |-> <<>>]
        ELSE IF Len(first_line) < 3
             THEN [raised |-> "IndexError", request |-> <<>>]
        ELSE [raised |-> "none",
              request |-> Encode(RequestLine(first_line, pth)
                                 \o RewriteHeaders(lines, 2, FALSE, addr))]

\* Mutant of PrefixGate: the prefix anywhere in the url
PrefixGateAnywhere(u, pre) == Find(u, pre) # -1

\* The prefix gate of client_request
PrefixGate(u, pre) == StartsWith(u, pre)

\* Proxy.client_request from the bytes read up to the call of proxy_request:
\* what is raised, whether proxy_request is called, and with what
Rewriter(req, pre) ==
    LET g == get_url(req)
        sep == separate_url_and_prefix(g.url, pre)
        p == prepare_request(req, sep[1], sep[2])
        none == [raised |-> "none", proxied |-> FALSE, url |-> <<>>,
                 address |-> <<>>, path |-> <<>>, request |-> <<>>]
    IN  IF g.raised # "none" THEN [none EXCEPT !.raised = g.raised]
        ELSE IF ~PrefixGate(g.url, pre) THEN [none EXCEPT !.url = g.url]
        ELSE IF p.raised # "none"
             THEN [none EXCEPT !.raised = p.raised, !.url = g.url,
                               !.address = sep[1], !.path = sep[2]]
        ELSE [raised |-> "none", proxied |-> TRUE, url |-> g.url,
              address |-> sep[1], path |-> sep[2], request |-> p.request]

\* ------------------------------------------------------------ inputs
RECURSIVE Concats(_, _)
\* The concatenations of at most n of the pieces
Concats(pieces, n) ==
    IF n = 0 THEN {<<>>}
    ELSE LET S == Concats(pieces, n - 1)
         IN  S \cup {s \o p : s \in S, p \in pieces}

RECURSIVE Flatten(_)
Flatten(ss) == IF ss = <<>> THEN <<>> ELSE Head(ss) \o Flatten(Tail(ss))

Prefixes == {<<>>, <<"/">>, <<"/", "p", "/">>}

UrlPieces ==
    {SLASH, <<"a">>, <<"b">>, HTTP, <<"h", "t", "t", "p", ":">>,
     <<"/", "p", "/">>}

UrlInputs == Concats(UrlPieces, MaxUrlPieces)

G == <<"G">>
V == <<"V">>
P == <<"/", "p", "/">>

\* First lines a client may send: well formed, and malformed in each way
FirstLines ==
    {<<>>,
     G,
     G \o SP \o P \o <<"a">>,
     G \o SP \o P \o <<"a">> \o SP,
     G \o SP \o P \o <<"a", "/", "b">> \o SP \o V,
     G \o SP \o P \o <<"a", "/", "b">> \o SP \o V \o <<"CR">>,
     G \o SP \o P \o HTTP \o <<"a">> \o SP \o V,
     G \o SP \o <<"/", "x">> \o SP \o V,
     G \o SP \o P \o <<"xC3", "xA9">> \o SP \o V,
     G \o SP \o P \o <<"xFF">> \o SP \o V,
     G \o SP \o P \o <<"a">> \o SP \o V \o SP \o <<"x">>,
     G \o SP \o SP \o P \o <<"a">> \o SP \o V}

HeaderLines ==
    {HostColonSp \o <<"l">>, HostColon \o <<"m">>, <<"A">>, <<>>}

HeaderPieces == {t \o l : t \in {CRLF, LFonly}, l \in HeaderLines}

RequestInputs ==
    {f \o r : f \in FirstLines, r \in Concats(HeaderPieces, MaxHeaderLines)}

\* What one read of the client socket may return in the server model
ClientRequests ==
    {<<>>,
     <<"xFF">>,
     G \o SP \o P \o <<"a">>,
     G \o SP \o <<"x">> \o P \o <<"a">> \o SP \o V \o CRLF \o CRLF,
     G \o SP \o <<"/", "p">> \o SP \o V \o CRLF \o CRLF,
     G \o SP \o <<"/", "x">> \o SP \o V \o CRLF \o HostColonSp \o <<"l">>
       \o CRLF \o CRLF,
     G \o SP \o P \o <<"a", "/", "b">> \o SP \o V \o CRLF
       \o HostColonSp \o <<"l">> \o CRLF \o CRLF}

ServerPrefixes == {<<>>, P}

\* The non-empty reads recv on the upstream socket may return
Chunks == {<<"x">>, <<"y", "z">>}

\* ------------------------------------------------------------ state
VARIABLES
    prefix,          \* self.prefix
    pc,              \* where the process is
    request,         \* client_request: the bytes read from the client
    url,             \* client_request: url
    address,         \* client_request: address
    path,            \* client_request: path
    new_request,     \* client_request: request after prepare_request
    raised,          \* the exception that left client_request, or "none"
    server_socket,   \* self.server_socket
    exit_status,     \* <<>> while it runs, then <<status>> it ended with
    conns,           \* the client connections accepted so far, in order
    read,            \* proxy_request: read
    remote_read,     \* the non-empty reads of the current upstream socket
    client_received, \* the bytes the current client socket took
    remote_sent,     \* the bytes sendall put on the current upstream socket
    remote_address   \* proxy_request: remote_address

vars ==
    <<prefix, pc, request, url, address, path, new_request, raised,
      server_socket, exit_status, conns, read, remote_read, client_received,
      remote_sent, remote_address>>

rewriter_vars == <<request, url, address, path, new_request, raised>>

server_vars ==
    <<server_socket, exit_status, conns, read, remote_read, client_received,
      remote_sent, remote_address>>

InitLocals ==
    /\ url = <<>>
    /\ address = <<>>
    /\ path = <<>>
    /\ new_request = <<>>
    /\ raised = "none"

InitServer ==
    /\ server_socket = "listening"
    /\ exit_status = <<>>
    /\ conns = <<>>
    /\ read = <<>>
    /\ remote_read = <<>>
    /\ client_received = <<>>
    /\ remote_sent = <<>>
    /\ remote_address = <<>>

\* ------------------------------------------------------------ SpecUrl
\* separate_url_and_prefix applied to every url of UrlInputs
InitUrl ==
    /\ prefix \in Prefixes
    /\ pc = "separate_url_and_prefix"
    /\ request = <<>>
    /\ url \in UrlInputs
    /\ address = <<>>
    /\ path = <<>>
    /\ new_request = <<>>
    /\ raised = "none"
    /\ InitServer

SeparateUrl ==
    /\ pc = "separate_url_and_prefix"
    /\ address' = separate_url_and_prefix(url, prefix)[1]
    /\ path' = separate_url_and_prefix(url, prefix)[2]
    /\ pc' = "separated"
    /\ UNCHANGED <<prefix, request, url, new_request, raised, server_vars>>

NextUrl == SeparateUrl

SpecUrl == InitUrl /\ [][NextUrl]_vars

\* ------------------------------------------------------------ SpecReq
\* get_url, the prefix gate, separate_url_and_prefix and prepare_request as
\* client_request chains them, applied to every request of RequestInputs
InitReq ==
    /\ prefix \in Prefixes
    /\ pc = "client_request"
    /\ request \in RequestInputs
    /\ InitLocals
    /\ InitServer

Rewrite ==
    /\ pc = "client_request"
    /\ LET r == Rewriter(request, prefix)
       IN  /\ url' = r.url
           /\ address' = r.address
           /\ path' = r.path
           /\ new_request' = r.request
           /\ raised' = r.raised
           /\ pc' = IF r.raised # "none" THEN "raised"
                    ELSE IF r.proxied THEN "proxy_request"
                    ELSE "rejected"
    /\ UNCHANGED <<prefix, request, server_vars>>

NextReq == Rewrite

SpecReq == InitReq /\ [][NextReq]_vars

\* ------------------------------------------------------------ Spec
\* The server: _accept, client_request and proxy_request, one step for each
\* blocking call (accept, recv, connect, sendall, recv, send)
Init ==
    /\ prefix \in ServerPrefixes
    /\ pc = "accept"
    /\ request = <<>>
    /\ InitLocals
    /\ InitServer

\* A connection as accept returns it
NewConn ==
    [client_reads |-> 0, client_socket |-> "open", remote |-> "none",
     remote_id |-> 0, remote_port |-> 0,
     remote_connects |-> 0, remote_sends |-> 0, outcome |-> "serving"]

\* The sockets socket.socket() has returned to proxy_request so far; each call
\* returns a new one
SocketsCreated ==
    Cardinality({i \in 1 .. Len(conns) : conns[i].remote_id > 0})

\* A relay that connects to the alternative HTTP port
UpstreamTargetAltPort(addr) == [host |-> addr, port |-> 8080]

\* Where client_request has proxy_request connect: the resolved host, port 80
UpstreamTarget(addr) == [host |-> addr, port |-> 80]

\* The connection being served: the last one accepted
cur == Len(conns)

\* The except socket.error clause of _accept: the message is printed and the
\* loop goes on; client_socket.close() of the try body is skipped
CaughtInAccept(outcome) ==
    /\ conns' = [conns EXCEPT ![cur].outcome = outcome]
    /\ pc' = "accept"
    /\ UNCHANGED <<server_socket, exit_status>>

\* client_request returned: client_socket.close() and the next iteration
ReturnedToAccept(outcome, remote) ==
    /\ conns' = [conns EXCEPT ![cur].outcome = outcome,
                              ![cur].remote = remote,
                              ![cur].client_socket = "closed"]
    /\ pc' = "accept"
    /\ UNCHANGED <<server_socket, exit_status>>

\* The process ends: by exit(status), or with status 1 by an exception that
\* no except clause of _accept catches
ProcessEnds(outcome, status) ==
    /\ conns' = [conns EXCEPT ![cur].outcome = outcome]
    /\ pc' = "exited"
    /\ exit_status' = <<status>>
    /\ UNCHANGED server_socket

\* An acceptor that also takes the next client while a relay waits for bytes
AcceptWhileServing ==
    /\ pc \in {"accept", "recv"}
    /\ Len(conns) < MaxClients
    /\ conns' = Append(conns, NewConn)
    /\ pc' = "client_request"
    /\ request' = <<>>
    /\ url' = <<>>
    /\ address' = <<>>
    /\ path' = <<>>
    /\ new_request' = <<>>
    /\ raised' = "none"
    /\ read' = <<>>
    /\ remote_read' = <<>>
    /\ client_received' = <<>>
    /\ remote_sent' = <<>>
    /\ remote_address' = <<>>
    /\ UNCHANGED <<prefix, server_socket, exit_status>>

\* self.server_socket.accept() returns a client
Accept ==
    /\ pc = "accept"
    /\ Len(conns) < MaxClients
    /\ conns' = Append(conns, NewConn)
    /\ pc' = "client_request"
    /\ request' = <<>>
    /\ url' = <<>>
    /\ address' = <<>>
    /\ path' = <<>>
    /\ new_request' = <<>>
    /\ raised' = "none"
    /\ read' = <<>>
    /\ remote_read' = <<>>
    /\ client_received' = <<>>
    /\ remote_sent' = <<>>
    /\ remote_address' = <<>>
    /\ UNCHANGED <<prefix, server_socket, exit_status>>

\* self.server_socket.accept() raises socket.error: the message is printed
\* and accept is called again
AcceptFault ==
    /\ pc = "accept"
    /\ UNCHANGED vars

\* An interrupt handler that ends the process and forgets the listening socket
InterruptKeepsListening ==
    /\ pc # "exited"
    /\ exit_status' = <<0>>
    /\ pc' = "exited"
    /\ conns' = IF pc = "accept" THEN conns
                ELSE [conns EXCEPT ![cur].outcome = "interrupted"]
    /\ UNCHANGED <<prefix, rewriter_vars, server_socket, read, remote_read,
                   client_received, remote_sent, remote_address>>

\* KeyboardInterrupt anywhere in the try body of _accept
Interrupt ==
    /\ pc # "exited"
    /\ server_socket' = "closed"
    /\ exit_status' = <<0>>
    /\ pc' = "exited"
    /\ conns' = IF pc = "accept" THEN conns
                ELSE [conns EXCEPT ![cur].outcome = "interrupted"]
    /\ UNCHANGED <<prefix, rewriter_vars, read, remote_read, client_received,
                   remote_sent, remote_address>>

\* client_request: recv returns req; get_url, the gate, the rewrite, and
\* proxy_request up to the socket it creates
ClientRequest ==
    /\ pc = "client_request"
    /\ \E req \in ClientRequests :
         LET r == Rewriter(req, prefix)
             c == [conns[cur] EXCEPT !.client_reads = @ + 1]
         IN  /\ request' = req
             /\ url' = r.url
             /\ address' = r.address
             /\ path' = r.path
             /\ new_request' = r.request
             /\ raised' = r.raised
             /\ IF r.raised # "none"
                THEN /\ conns' = [conns EXCEPT ![cur] =
                                     [c EXCEPT !.outcome = "raised"]]
                     /\ pc' = "exited"
                     /\ exit_status' = <<1>>
                     /\ UNCHANGED remote_address
                ELSE IF ~r.proxied
                THEN /\ conns' = [conns EXCEPT ![cur] =
                                     [c EXCEPT !.outcome = "rejected",
                                               !.client_socket = "closed"]]
                     /\ pc' = "accept"
                     /\ UNCHANGED <<exit_status, remote_address>>
                ELSE /\ conns' = [conns EXCEPT ![cur] =
                                     [c EXCEPT
                                        !.remote = "created",
                                        !.remote_id = SocketsCreated + 1,
                                        !.remote_port =
                                            UpstreamTarget(r.address).port]]
                     /\ pc' = "connect"
                     /\ remote_address' = UpstreamTarget(r.address).host
                     /\ UNCHANGED exit_status
    /\ UNCHANGED <<prefix, server_socket, read, remote_read, client_received,
                   remote_sent>>

\* client_socket.recv raises socket.error
ClientRecvFault ==
    /\ pc = "client_request"
    /\ conns' = [conns EXCEPT ![cur].client_reads = @ + 1,
                              ![cur].outcome = "recv_fault"]
    /\ pc' = "accept"
    /\ UNCHANGED <<server_socket, exit_status>>
    /\ UNCHANGED <<prefix, rewriter_vars, read, remote_read, client_received,
                   remote_sent, remote_address>>

\* A relay that starts to read as soon as the connection stands
ConnectThenStream ==
    /\ pc = "connect"
    /\ conns' = [conns EXCEPT ![cur].remote = "connected",
                              ![cur].remote_connects = @ + 1]
    /\ pc' = "recv"
    /\ UNCHANGED <<prefix, rewriter_vars, server_socket, exit_status, read,
                   remote_read, client_received, remote_sent, remote_address>>

\* remote_connect_socket.connect returns
Connect ==
    /\ pc = "connect"
    /\ conns' = [conns EXCEPT ![cur].remote = "connected",
                              ![cur].remote_connects = @ + 1]
    /\ pc' = "sendall"
    /\ UNCHANGED <<prefix, rewriter_vars, server_socket, exit_status, read,
                   remote_read, client_received, remote_sent, remote_address>>

\* remote_connect_socket.connect raises socket.error (refused, unreachable,
\* timed out): outside the try of proxy_request
ConnectFault ==
    /\ pc = "connect"
    /\ CaughtInAccept("connect_fault")
    /\ UNCHANGED <<prefix, rewriter_vars, read, remote_read, client_received,
                   remote_sent, remote_address>>

\* remote_connect_socket.sendall(request) returns
SendAll ==
    /\ pc = "sendall"
    /\ remote_sent' = new_request
    /\ conns' = [conns EXCEPT ![cur].remote_sends = @ + 1]
    /\ pc' = "recv"
    /\ UNCHANGED <<prefix, rewriter_vars, server_socket, exit_status, read,
                   remote_read, client_received, remote_address>>

\* remote_connect_socket.sendall raises socket.error
SendAllFault ==
    /\ pc = "sendall"
    /\ CaughtInAccept("send_fault")
    /\ UNCHANGED <<prefix, rewriter_vars, read, remote_read, client_received,
                   remote_sent, remote_address>>

\* remote_connect_socket.recv returns a non-empty read
RecvData ==
    /\ pc = "recv"
    /\ Len(remote_read) < MaxChunks
    /\ \E c \in Chunks :
         /\ read' = c
         /\ remote_read' = Append(remote_read, c)
    /\ pc' = "send"
    /\ UNCHANGED <<prefix, rewriter_vars, server_socket, exit_status, conns,
                   client_received, remote_sent, remote_address>>

\* A loop without the test for the zero-length read: b"" goes on to send
RecvZeroKeepsReading ==
    /\ pc = "recv"
    /\ read' = <<>>
    /\ pc' = "send"
    /\ UNCHANGED <<prefix, rewriter_vars, server_socket, exit_status, conns,
                   remote_read, client_received, remote_sent, remote_address>>

\* remote_connect_socket.recv returns b"": break, close, return
RecvZero ==
    /\ pc = "recv"
    /\ read' = <<>>
    /\ ReturnedToAccept("closed", "closed")
    /\ UNCHANGED <<prefix, rewriter_vars, remote_read, client_received,
                   remote_sent, remote_address>>

\* remote_connect_socket.recv raises socket.timeout: close, return
RecvTimeout ==
    /\ pc = "recv"
    /\ ReturnedToAccept("timeout", "closed")
    /\ UNCHANGED <<prefix, rewriter_vars, read, remote_read, client_received,
                   remote_sent, remote_address>>

\* remote_connect_socket.recv raises another socket.error: exit(3)
RecvFault ==
    /\ pc = "recv"
    /\ ProcessEnds("relay_fault", 3)
    /\ UNCHANGED <<prefix, rewriter_vars, read, remote_read, client_received,
                   remote_sent, remote_address>>

\* The number of bytes client_socket.send(read) may take and return
SendTakes(data) == 1 .. Len(data)

\* client_socket.send(read) returns; its result is dropped
ClientSend ==
    /\ pc = "send"
    /\ \E n \in SendTakes(read) :
         client_received' = client_received \o UpTo(read, n)
    /\ pc' = "recv"
    /\ UNCHANGED <<prefix, rewriter_vars, server_socket, exit_status, conns,
                   read, remote_read, remote_sent, remote_address>>

\* client_socket.send raises socket.error: exit(3)
ClientSendFault ==
    /\ pc = "send"
    /\ ProcessEnds("relay_fault", 3)
    /\ UNCHANGED <<prefix, rewriter_vars, read, remote_read, client_received,
                   remote_sent, remote_address>>

\* A socket object nothing refers to any more may be closed by the runtime's
\* finalizer: a client socket once accept has rebound client_socket, an
\* upstream socket once the frame of proxy_request is gone
Finalize ==
    /\ pc # "exited"
    /\ \E i \in 1 .. Len(conns) :
         \/ /\ i < cur
            /\ conns[i].client_socket = "open"
            /\ conns' = [conns EXCEPT ![i].client_socket = "closed"]
         \/ /\ conns[i].outcome \in {"connect_fault", "send_fault"}
            /\ conns[i].remote \in {"created", "connected"}
            /\ conns' = [conns EXCEPT ![i].remote = "closed"]
    /\ UNCHANGED <<prefix, pc, rewriter_vars, server_socket, exit_status,
                   read, remote_read, client_received, remote_sent,
                   remote_address>>

Next ==
    \/ Accept
    \/ AcceptFault
    \/ Interrupt
    \/ ClientRequest
    \/ ClientRecvFault
    \/ Connect
    \/ ConnectFault
    \/ SendAll
    \/ SendAllFault
    \/ RecvData
    \/ RecvZero
    \/ RecvTimeout
    \/ RecvFault
    \/ ClientSend
    \/ ClientSendFault
    \/ Finalize

Spec == Init /\ [][Next]_vars

\* remote_connect_socket.recv comes back: with bytes, with b"", or by raising
RecvReturns == RecvData \/ RecvZero \/ RecvTimeout \/ RecvFault

\* The server with the one deadline it has: settimeout(2) on the upstream
\* socket, so a recv that can come back does come back. accept, the client's
\* recv and client_socket.send block without a deadline.
SpecLive == Spec /\ WF_vars(RecvReturns)

\* ------------------------------------------------------------ claims

\* The request of the connection accepted last has been read
Served == cur > 0 /\ conns[cur].client_reads > 0 /\ conns[cur].outcome # "recv_fault"

\* The server is back in accept after the connection it served last
BackInAccept == pc = "accept" /\ cur > 0

\* C1 (prefix gate): a connection whose request-target, the second token of
\* the first line, does not begin with the configured prefix is rejected, and
\* no upstream socket is created or connected for it and nothing is sent,
\* then or later.
C1_PrefixGate ==
    LET g == get_url(request)
    IN  /\ (Served /\ g.raised = "none" /\ ~StartsWith(g.url, prefix))
           => /\ conns[cur].outcome = "rejected"
              /\ conns[cur].remote = "none"
              /\ conns[cur].remote_port = 0
              /\ remote_sent = <<>>
        /\ \A i \in 1 .. Len(conns) :
               conns[i].outcome = "rejected"
               => conns[i].remote = "none" /\ conns[i].remote_port = 0

\* C1 witness: a request with a target outside the prefix was rejected.
C1_Witness ==
    /\ Served
    /\ get_url(request).raised = "none"
    /\ ~StartsWith(get_url(request).url, prefix)
    /\ conns[cur].outcome = "rejected"
    /\ conns[cur].client_socket = "closed"

\* A malformed read: empty, undecodable, fewer than two tokens on the first
\* line, or a target inside the prefix on a line of fewer than three tokens
Malformed(req, pre) ==
    LET d == Decode(req)
        first == Split(Split(d.str, LFonly)[1], SP)
        line == Split(Split(d.str, CRLF)[1], SP)
    IN  \/ req = <<>>
        \/ d.raised # "none"
        \/ Len(first) < 2
        \/ StartsWith(first[2], pre) /\ Len(line) < 3

\* C2 (malformed-request isolation), as claimed: a malformed request is
\* dropped, its client socket is closed, and the process keeps running.
C2_MalformedIsolated ==
    (Served /\ Malformed(request, prefix))
    => /\ conns[cur].client_socket = "closed"
       /\ conns[cur].remote = "none"
       /\ exit_status # <<1>>

\* C3 (upstream connect/send fault), as claimed: after connect or sendall
\* fails the process runs on in accept and the client's socket is closed.
C3_ConnectFaultIsolated ==
    (BackInAccept /\ conns[cur].outcome \in {"connect_fault", "send_fault"})
    => /\ exit_status = <<>>
       /\ conns[cur].client_socket = "closed"

\* C4 (relay fidelity), as claimed: when the upstream closed gracefully after
\* its chunks, the client was written exactly their concatenation.
C4_RelayFidelity ==
    (BackInAccept /\ conns[cur].outcome = "closed")
    => client_received = Flatten(remote_read)

\* C10 (end-of-stream is normal completion), as claimed: after a zero-length
\* read or a receive timeout the process runs on in accept, both sockets are
\* closed, and every chunk read has been written to the client.
C10_EndOfStreamNormal ==
    (BackInAccept /\ conns[cur].outcome \in {"closed", "timeout"})
    => /\ exit_status = <<>>
       /\ conns[cur].remote = "closed"
       /\ conns[cur].client_socket = "closed"
       /\ client_received = Flatten(remote_read)

\* ---- separate_url_and_prefix (SpecUrl)

\* C5 (parsed-URL invariant): for a target that begins with the prefix, the
\* host has no leading "/", does not start with "http://" and contains no "/",
\* and the path begins with "/".
C5_ParsedUrlInvariant ==
    (pc = "separated" /\ StartsWith(url, prefix))
    => /\ ~StartsWith(address, SLASH)
       /\ ~StartsWith(address, HTTP)
       /\ Find(address, SLASH) = -1
       /\ StartsWith(path, SLASH)

\* C5 witness: a target inside the prefix with an http:// marker, resolved to
\* a host and a path below the root.
C5_Witness ==
    /\ pc = "separated"
    /\ prefix = P
    /\ StartsWith(url, prefix)
    /\ Find(url, HTTP) # -1
    /\ address # <<>>
    /\ Len(path) > 1

\* The hosts and paths C6 speaks of: a host is non-empty and has no "/", a
\* path is empty or begins with "/"
Hosts ==
    Concats({<<"a">>, <<"b">>, <<"h", "t", "t", "p", ":">>}, 2) \ {<<>>}

Paths ==
    {<<>>} \cup
    {SLASH \o r :
        r \in Concats({SLASH, <<"a">>, <<"h", "t", "t", "p", ":">>, HTTP}, 2)}

PathOrRoot(p) == IF p = <<>> THEN SLASH ELSE p

\* C6 (accepted forms), as claimed: prefix + host + path, prefix + "/" + host
\* + path and prefix + "http://" + host + path all resolve to (host, path),
\* with "/" for an empty path.
C6_FormsResolve ==
    pc = "separated"
    => \A h \in Hosts, p \in Paths :
           url \in {prefix \o h \o p, prefix \o SLASH \o h \o p,
                    prefix \o HTTP \o h \o p}
           => <<address, path>> = <<h, PathOrRoot(p)>>

\* C6 amended: prefix + "http://" + host + path resolves to (host, path), and
\* so do prefix + host + path and prefix + "/" + host + path when host + path
\* contains no "http://"; an empty path resolves to "/".
C6_FormsResolveAmended ==
    pc = "separated"
    => \A h \in Hosts, p \in Paths :
           \/ url = prefix \o HTTP \o h \o p
           \/ /\ url \in {prefix \o h \o p, prefix \o SLASH \o h \o p}
              /\ Find(h \o p, HTTP) = -1
           => <<address, path>> = <<h, PathOrRoot(p)>>

\* C6 witness: the http:// form, with a path that holds a second marker.
C6_Witness ==
    /\ pc = "separated"
    /\ url = prefix \o HTTP \o <<"a">> \o SLASH \o HTTP
    /\ <<address, path>> = <<(<<"a">>), SLASH \o HTTP>>

\* ---- prepare_request as client_request calls it (SpecReq)

\* The CRLF-separated lines of a bytes object
LinesOf(b) == Split(b, CRLF)

\* The header lines, those after the first, that begin with "Host:"
HostLines(ls) == {i \in 2 .. Len(ls) : StartsWith(ls[i], HostColon)}

\* The first line is a request line: METHOD target VERSION
ValidRequestLine(line) ==
    LET t == Split(line, SP)
    IN  Len(t) = 3 /\ t[1] # <<>> /\ t[2] # <<>> /\ t[3] # <<>>

\* C7 (request-line rewrite): when the first line is METHOD target VERSION,
\* the first line of the rewritten request is METHOD p VERSION with p the
\* derived path: method and version are kept and the target is the path
\* alone, which begins with "/".
C7_RequestLineRewrite ==
    (pc = "proxy_request" /\ ValidRequestLine(LinesOf(request)[1]))
    => LET t == Split(LinesOf(request)[1], SP)
           out == LinesOf(new_request)[1]
       IN  /\ out = t[1] \o SP \o Encode(path) \o SP \o t[3]
           /\ Split(out, SP) = <<t[1], Encode(path), t[3]>>
           /\ StartsWith(path, SLASH)

\* C7 witness: a request line whose target names a host and a path was
\* rewritten to the path.
C7_Witness ==
    /\ pc = "proxy_request"
    /\ ValidRequestLine(LinesOf(request)[1])
    /\ address # <<>>
    /\ Len(path) > 1
    /\ Split(LinesOf(new_request)[1], SP)[2] # Split(LinesOf(request)[1], SP)[2]

\* C8 (Host-header rewrite): when exactly one header line begins with
\* "Host:", the rewritten request has exactly one, at the same position, with
\* the resolved host as its value, and every other header line is the
\* original one, in the original order.
C8_HostHeaderRewrite ==
    (pc = "proxy_request" /\ Cardinality(HostLines(LinesOf(request))) = 1)
    => LET inl == LinesOf(request)
           out == LinesOf(new_request)
       IN  /\ Len(out) = Len(inl)
           /\ HostLines(out) = HostLines(inl)
           /\ \A i \in HostLines(inl) : out[i] = HostColonSp \o Encode(address)
           /\ \A i \in (2 .. Len(inl)) \ HostLines(inl) : out[i] = inl[i]

\* C8 witness: a request with one Host line and another header line, and a
\* host that differs from the one the client named.
C8_Witness ==
    /\ pc = "proxy_request"
    /\ Cardinality(HostLines(LinesOf(request))) = 1
    /\ Len(LinesOf(request)) >= 3
    /\ address # <<>>
    /\ \E i \in HostLines(LinesOf(request)) :
          LinesOf(new_request)[i] # LinesOf(request)[i]

\* The first header line that begins with "Host:", or 0
FirstHostLine(ls) ==
    IF HostLines(ls) = {} THEN 0
    ELSE CHOOSE i \in HostLines(ls) : \A j \in HostLines(ls) : i <= j

\* C9 (rewrite frame): the rewritten request has as many CRLF-separated
\* lines as the original; every line except the first and the first "Host:"
\* line is copied unchanged, a later "Host:" line too; and with no "Host:"
\* line in the original there is none in the result.
C9_RewriteFrame ==
    pc = "proxy_request"
    => LET inl == LinesOf(request)
           out == LinesOf(new_request)
       IN  /\ Len(out) = Len(inl)
           /\ \A i \in 2 .. Len(inl) : i # FirstHostLine(inl) => out[i] = inl[i]
           /\ HostLines(inl) = {} => HostLines(out) = {}

\* C9 witness: two Host lines, the first rewritten and the second kept.
C9_Witness ==
    /\ pc = "proxy_request"
    /\ Cardinality(HostLines(LinesOf(request))) = 2
    /\ \E i \in HostLines(LinesOf(request)) :
          /\ i # FirstHostLine(LinesOf(request))
          /\ LinesOf(new_request)[i] = LinesOf(request)[i]
    /\ LinesOf(new_request)[FirstHostLine(LinesOf(request))]
          # LinesOf(request)[FirstHostLine(LinesOf(request))]

\* ---- the server, continued (Spec)

\* s is a prefix of t
IsPrefixOf(s, t) == Len(s) <= Len(t) /\ SubSeq(t, 1, Len(s)) = s

\* C11 (fault isolation while streaming), as claimed: a socket fault in the
\* streaming phase of one relay, an upstream read error other than a timeout
\* or a failed write to the client, leaves the server running to accept and
\* serve the next client.
C11_StreamingFaultIsolated ==
    \A i \in 1 .. Len(conns) :
        conns[i].outcome = "relay_fault"
        => pc # "exited" /\ server_socket = "listening"

\* C12 (no proxy-generated data), as claimed: the bytes a client socket was
\* written are always a prefix of the bytes read from its upstream socket, and
\* a rejected or failed request leaves the client with no bytes and a closed
\* connection.
C12_NoProxyData ==
    /\ IsPrefixOf(client_received, Flatten(remote_read))
    /\ (BackInAccept
        /\ conns[cur].outcome \in {"rejected", "connect_fault", "send_fault"})
       => /\ client_received = <<>>
          /\ conns[cur].client_socket = "closed"

\* C14 (upstream socket lifecycle), as claimed: whenever the server waits in
\* accept, every upstream socket proxy_request created so far is closed,
\* whether the relay ended by graceful close, by read timeout, or by a socket
\* fault in connect or sendall.
C14_UpstreamClosedByAccept ==
    pc = "accept"
    => \A i \in 1 .. Len(conns) : conns[i].remote \in {"none", "closed"}

\* The process ended through the except KeyboardInterrupt clause
EndedByInterrupt == pc = "exited" /\ exit_status = <<0>>

\* C15 (interrupt handling), as claimed: an interrupt in the accept wait
\* closes the listening socket and ends the process, and no relay is ever cut
\* short by an interrupt: a client being served is served to completion or to
\* a socket fault.
C15_NoCancelMidRelay ==
    /\ EndedByInterrupt => server_socket = "closed"
    /\ \A i \in 1 .. Len(conns) : conns[i].outcome # "interrupted"

\* C15, amended: an interrupt ends the process with status 0 and the
\* listening socket closed wherever it arrives, in the accept wait or while a
\* client is served; the listening socket is closed in no other way, and the
\* client cut short is the one being served, its sockets left as they were.
C15_InterruptEndsProcess ==
    /\ EndedByInterrupt => server_socket = "closed"
    /\ server_socket = "closed" => EndedByInterrupt
    /\ \A i \in 1 .. Len(conns) :
         conns[i].outcome = "interrupted"
         => /\ i = cur
            /\ EndedByInterrupt
            /\ conns[i].client_socket = "open"
            /\ conns[i].remote # "closed"

\* An interrupt arrived in the middle of a relay, after bytes were read
C15_Witness ==
    /\ EndedByInterrupt
    /\ server_socket = "closed"
    /\ cur > 0
    /\ conns[cur].outcome = "interrupted"
    /\ conns[cur].remote = "connected"
    /\ remote_read # <<>>

\* Where the server is while a client is being served
ServingPcs == {"client_request", "connect", "sendall", "recv", "send"}

\* C16 (strictly sequential service): at most one client is being served, and
\* it is the last one accepted; the server waits in accept only when no client
\* is being served; every client accepted earlier has already been served
\* (its request read) and finished, so clients are served in acceptance order.
C16_Sequential ==
    /\ \A i \in 1 .. Len(conns) :
         conns[i].outcome = "serving" => i = cur /\ pc \in ServingPcs
    /\ pc \in ServingPcs => cur > 0 /\ conns[cur].outcome = "serving"
    /\ \A i \in 1 .. Len(conns) :
         i < cur => conns[i].client_reads = 1 /\ conns[i].outcome # "serving"

\* A second client is in its relay after the first was served to the end
C16_Witness ==
    /\ cur = 2
    /\ pc = "send"
    /\ conns[1].outcome = "closed"
    /\ conns[2].outcome = "serving"

\* The phases of a relay, by where the server is: CONNECTING at "connect",
\* SENDING at "sendall", STREAMING at "recv" and "send", and DONE or FAILED
\* once it is back at "accept"
NothingRelayed ==
    remote_sent = <<>> /\ remote_read = <<>> /\ client_received = <<>>

C17_PhaseState ==
    /\ pc = "connect" => conns[cur].remote = "created" /\ NothingRelayed
    /\ pc = "sendall" => conns[cur].remote = "connected" /\ NothingRelayed
    /\ (pc \in {"recv", "send"} \/ remote_read # <<>> \/ client_received # <<>>)
       => /\ remote_sent = new_request
          /\ new_request # <<>>
          /\ conns[cur].remote \in {"connected", "closed"}
    /\ (BackInAccept /\ conns[cur].outcome \in {"connect_fault", "send_fault"})
       => remote_read = <<>> /\ client_received = <<>>

C17_PhaseStep ==
    \/ pc' = pc /\ remote_sent' = remote_sent
    \/ /\ pc = "connect" => pc' \in {"sendall", "accept", "exited"}
       /\ pc = "sendall" => pc' \in {"recv", "accept", "exited"}
       /\ pc = "recv" => pc' \in {"send", "accept", "exited"}
       /\ pc = "send" => pc' \in {"recv", "exited"}
       /\ pc' = "sendall" => pc = "connect"
       /\ pc' = "recv" => pc \in {"sendall", "send"}
       /\ pc' = "send" => pc = "recv"
       /\ (remote_read # <<>> /\ Len(conns') = Len(conns))
          => remote_sent' = remote_sent

\* C17 (relay phase ordering): a relay goes through CONNECTING, SENDING,
\* STREAMING and DONE in that order, or to FAILED from CONNECTING or SENDING;
\* nothing is read from the upstream and nothing written to the client before
\* the whole rewritten request was sent upstream, and nothing is sent upstream
\* once the first upstream read has happened.
C17_PhaseOrder == []C17_PhaseState /\ [][C17_PhaseStep]_vars

\* A relay in STREAMING that has read twice and written to the client
C17_Witness ==
    /\ pc = "recv"
    /\ Len(remote_read) = 2
    /\ client_received # <<>>
    /\ remote_sent = new_request

\* C18 (one upstream connection per client, always port 80): for every client
\* the server reads the client socket at most once, opens at most one upstream
\* connection and sends at most one request on it; the connection goes to
\* port 80 of the host resolved from that client's request; and no two
\* clients share an upstream socket.
C18_OneUpstreamPort80 ==
    \A i \in 1 .. Len(conns) :
        /\ conns[i].client_reads <= 1
        /\ conns[i].remote_connects <= 1
        /\ conns[i].remote_sends <= conns[i].remote_connects
        /\ (conns[i].remote = "none") = (conns[i].remote_id = 0)
        /\ conns[i].remote = "none" => conns[i].remote_connects = 0
        /\ conns[i].remote # "none"
           => /\ conns[i].remote_port = 80
              /\ i = cur => remote_address = address
        /\ \A j \in 1 .. Len(conns) :
             (j # i /\ conns[i].remote_id > 0)
             => conns[j].remote_id # conns[i].remote_id

\* Two clients in a row were relayed, each over its own upstream socket
C18_Witness ==
    /\ cur = 2
    /\ conns[1].remote_sends = 1
    /\ conns[2].remote_sends = 1
    /\ conns[1].remote_id # conns[2].remote_id
    /\ conns[2].remote_port = 80
    /\ remote_address = address

\* ---- separate_url_and_prefix, continued (SpecUrl)

\* The request-target with the prefix and one optional leading "/" removed
AfterPrefix(u, pre) ==
    LET r == SubSeq(u, Len(pre) + 1, Len(u))
    IN  IF r # <<>> /\ r[1] = "/" THEN Tail(r) ELSE r

\* "http://" stands in t at offset k
MarkerAt(t, k) ==
    /\ k + Len(HTTP) <= Len(t)
    /\ SubSeq(t, k + 1, k + Len(HTTP)) = HTTP

\* The offsets of the first "http://" of t: one offset, or none
FirstMarker(t) ==
    {k \in 0 .. Len(t) :
        MarkerAt(t, k) /\ \A j \in 0 .. k - 1 : ~MarkerAt(t, j)}

\* Host and path as read from text t alone: the host runs to the first "/",
\* the path is the rest, or "/" when t has no "/"
HostAndPathOf(t, h, p) ==
    \/ /\ \A n \in 1 .. Len(t) : t[n] # "/"
       /\ h = t
       /\ p = SLASH
    \/ \E n \in 1 .. Len(t) :
         /\ t[n] = "/"
         /\ \A m \in 1 .. n - 1 : t[m] # "/"
         /\ h = SubSeq(t, 1, n - 1)
         /\ p = SubSeq(t, n, Len(t))

\* C19 (text before the marker is discarded): when the request-target, with
\* the prefix and one optional leading "/" removed, holds "http://" at any
\* offset, host and path are those of the text after the first "http://"
\* alone; what stands between the prefix and that marker has no influence.
C19_MarkerDiscardsLead ==
    (pc = "separated" /\ StartsWith(url, prefix))
    => \A k \in FirstMarker(AfterPrefix(url, prefix)) :
           LET t == AfterPrefix(url, prefix)
           IN  HostAndPathOf(SubSeq(t, k + Len(HTTP) + 1, Len(t)),
                             address, path)

\* A marker behind other text: "a" before it is dropped, host and path are
\* those of "b/"
C19_Witness ==
    /\ pc = "separated"
    /\ prefix = SLASH
    /\ url = SLASH \o <<"a">> \o HTTP \o <<"b">>
    /\ FirstMarker(AfterPrefix(url, prefix)) = {1}
    /\ <<address, path>> = <<(<<"b">>), SLASH>>

\* ---- the relay loop under SpecLive

\* The relay is in its streaming loop
Streaming == pc \in {"recv", "send"}

\* The loop ends at the zero-length read itself: b"" is never passed on to
\* send, and a relay whose upstream closed is out of the loop with its
\* upstream socket closed
C13_EndsAtZeroRead ==
    /\ pc = "send" => read # <<>>
    /\ (cur > 0 /\ conns[cur].outcome = "closed")
       => ~Streaming /\ read = <<>> /\ conns[cur].remote = "closed"

\* C13 (relay termination), as claimed: every relay that enters the streaming
\* loop leaves it, given only that the upstream in the end closes, stays
\* silent for the timeout or faults; and on a graceful close the loop ends at
\* the zero-length read itself.
C13_RelayTerminates ==
    /\ Streaming ~> ~Streaming
    /\ []C13_EndsAtZeroRead

\* C13, amended: every relay that enters the streaming loop leaves it, given
\* that the upstream in the end closes, stays silent for the timeout or
\* faults, and that every write to the client comes back (the client takes
\* the bytes or the write fails); on a graceful close the loop ends at the
\* zero-length read itself.
C13_RelayTerminatesIfClientTakes ==
    /\ ((pc = "send") ~> (pc # "send")) => (Streaming ~> ~Streaming)
    /\ []C13_EndsAtZeroRead

\* A relay that read all its chunks, wrote them on, and ended at the
\* zero-length read
C13_Witness ==
    /\ BackInAccept
    /\ conns[cur].outcome = "closed"
    /\ Len(remote_read) = MaxChunks
    /\ client_received # <<>>
    /\ read = <<>>

====
